---- MODULE Spec2Model ----
(***************************************************************************)
(* Model of the book-alchemy catalogue: the Author and Book tables of      *)
(* data_models.py (stored in SQLite) and the request handlers of app.py.   *)
(*                                                                         *)
(* Text is a sequence of one-character strings.  A value stored in an      *)
(* INTEGER column or handed to the database driver is a tagged record      *)
(* [k, v]: k = "int" (v a number), "text" (v a text), "null", "obj".       *)
(***************************************************************************)
EXTENDS Integers, Sequences, FiniteSets, TLC

VARIABLES authors, books, req, resp, pc, held

vars == <<authors, books, req, resp, pc, held>>

(* ------------------------------ bounds --------------------------------- *)

\* largest author_id / book_id the model lets the tables assign
MaxAuthors == 2
MaxBooks == 2
\* number of delete requests that may be in flight together (SpecConc)
NumWorkers == 1

Workers == 1..NumWorkers

(* ------------------------------- text ----------------------------------- *)

\* byte value of a character (SQLite's default BINARY collation compares bytes)
Code(c) ==
    CASE c = "%" -> 37 [] c = "0" -> 48 [] c = "1" -> 49 [] c = "2" -> 50
      [] c = "3" -> 51 [] c = "4" -> 52 [] c = "5" -> 53 [] c = "A" -> 65
      [] c = "B" -> 66 [] c = "_" -> 95 [] c = "a" -> 97 [] c = "b" -> 98
      [] c = "u" -> 117 [] OTHER -> 120

DigitChars == <<"0", "1", "2", "3", "4", "5", "6", "7", "8", "9">>

Digits == {DigitChars[i] : i \in 1..10}

DigitVal(c) == CHOOSE n \in 0..9 : DigitChars[n + 1] = c

\* the decimal text a form submits for a small number
ItoA(n) == <<DigitChars[n + 1]>>

\* SQL lower(): ASCII letters only
Lower(c) == CASE c = "A" -> "a" [] c = "B" -> "b" [] OTHER -> c

LowerStr(s) == [i \in DOMAIN s |-> Lower(s[i])]

RECURSIVE StrLeq(_, _)
\* s <= t under the BINARY collation used by ORDER BY
StrLeq(s, t) ==
    IF s = <<>> THEN TRUE
    ELSE IF t = <<>> THEN FALSE
    ELSE IF Code(Head(s)) # Code(Head(t)) THEN Code(Head(s)) < Code(Head(t))
    ELSE StrLeq(Tail(s), Tail(t))

RECURSIVE Like(_, _)
\* SQLite's  s LIKE p : % matches any run of characters, _ any one character
Like(p, s) ==
    IF p = <<>> THEN s = <<>>
    ELSE IF Head(p) = "%" THEN Like(Tail(p), s) \/ (s # <<>> /\ Like(p, Tail(s)))
    ELSE IF s = <<>> THEN FALSE
    ELSE IF Head(p) = "_" THEN Like(Tail(p), Tail(s))
    ELSE Lower(Head(p)) = Lower(Head(s)) /\ Like(Tail(p), Tail(s))

\* Book.title.ilike(f"%{search}%"), rendered for SQLite as
\* lower(title) LIKE lower('%' || search || '%')
Ilike(title, search) == Like(LowerStr(<<"%">> \o search \o <<"%">>), LowerStr(title))

(* ------------------------------ columns --------------------------------- *)

IntVal(n) == [k |-> "int", v |-> n]
TextVal(s) == [k |-> "text", v |-> s]
NullVal == [k |-> "null", v |-> 0]
ObjVal == [k |-> "obj", v |-> 0]

RECURSIVE ParseInt(_)
ParseInt(s) == IF s = <<>> THEN 0 ELSE 10 * ParseInt(SubSeq(s, 1, Len(s) - 1)) + DigitVal(s[Len(s)])

\* a text bound to a Column(Integer): SQLite's INTEGER affinity stores a
\* well-formed integer literal as a number and leaves any other text as text
IntegerAffinity(s) ==
    IF s # <<>> /\ \A i \in DOMAIN s : s[i] \in Digits THEN IntVal(ParseInt(s)) ELSE TextVal(s)

SetMax(S) == CHOOSE m \in S : \A n \in S : n <= m

NextIdCount(ids) == Cardinality(ids) + 1

\* Column(Integer, primary_key=True, autoincrement=True) on SQLite is an alias
\* of the rowid: a new row gets the largest id in the table plus one
NextId(ids) == IF ids = {} THEN 1 ELSE SetMax(ids) + 1

AuthorIds(auths) == {a.author_id : a \in auths}
BookIds(bks) == {b.book_id : b \in bks}

\* the Book.author relationship: the authors a book's author_id resolves to
AuthorsOf(b, auths) == {a \in auths : b.author_id = IntVal(a.author_id)}

Resolves(b, auths) == AuthorsOf(b, auths) # {}

BooksOf(a, bks) == {b \in bks : b.author_id = IntVal(a.author_id)}

(* ------------------------------ requests -------------------------------- *)

Names == {<<"B">>, <<"a">>}
Birthdates == {<<"1">>}
Deaths == {<<>>}
Titles == {<<"A", "b">>, <<"b">>}
Isbns == {<<"1">>}
Years == {<<"1">>}
AuthorRefs == {ItoA(n) : n \in 1..MaxAuthors} \cup {<<>>}
Searches == {<<>>, <<"a">>, <<"_">>, <<"x">>}
Url == <<"u">>

\* what the Google Books request of fetch_book_image can come back with
Lookups == {"net_error", "bad_json", "no_items", "items_empty", "no_image_links",
            "no_thumbnail", "thumb_url", "thumb_null", "thumb_object"}

\* the outcomes the catalogue runs draw from: a failed request and a
\* thumbnail that is a JSON object
CatalogueLookups == {"net_error", "thumb_object"}

\* the value fetch_book_image returns
FetchBookImage(lookup) ==
    CASE lookup = "thumb_url" -> TextVal(Url)
      [] lookup = "thumb_null" -> NullVal
      [] lookup = "thumb_object" -> ObjVal
      [] OTHER -> TextVal(<<>>)

\* the driver binds text, numbers and None; any other value makes commit raise
Bindable(val) == val.k # "obj"

NoBooks == <<>>

\* the handler-local variable `book` while it holds no row (None)
NoBook == [book_id |-> 0, isbn |-> <<>>, title |-> <<>>, publication_year |-> NullVal,
           author_id |-> NullVal, image_url |-> NullVal]

Reply(status, body, bks) == [status |-> status, body |-> body, books |-> bks]

Perms(S) == {f \in [1..Cardinality(S) -> S] : \A i, j \in DOMAIN f : f[i] = f[j] => i = j}

\* rows of an unordered query come back in rowid order
InIdOrder(S) == CHOOSE f \in Perms(S) : \A i, j \in DOMAIN f : i < j => f[i].book_id < f[j].book_id

NameOf(b, auths) == (CHOOSE a \in AuthorsOf(b, auths) : TRUE).name

(* ------------------------------ handlers -------------------------------- *)

Init ==
    /\ authors = {}
    /\ books = {}
    /\ req = [op |-> "start", form |-> [none |-> 0]]
    /\ resp = Reply(200, "", NoBooks)
    /\ pc = [w \in Workers |-> "idle"]
    /\ held = [w \in Workers |-> NoBook]

\* POST /add_author
AddAuthor(name, birthdate, date_of_death) ==
    /\ NextId(AuthorIds(authors)) <= MaxAuthors
    /\ authors' = authors \cup {[author_id |-> NextId(AuthorIds(authors)), name |-> name,
                                 birthdate |-> birthdate, date_of_death |-> date_of_death]}
    /\ req' = [op |-> "add_author",
               form |-> [name |-> name, birthdate |-> birthdate, date_of_death |-> date_of_death]]
    /\ resp' = Reply(200, "New author successfully added to database", NoBooks)
    /\ UNCHANGED <<books, pc, held>>

\* POST /add_book
AddBook(title, isbn, publication_year, author_id, lookup) ==
    LET image_url == FetchBookImage(lookup)
        new_book == [book_id |-> NextId(BookIds(books)), isbn |-> isbn, title |-> title,
                     publication_year |-> IntegerAffinity(publication_year),
                     author_id |-> IntegerAffinity(author_id), image_url |-> image_url]
    IN  /\ NextId(BookIds(books)) <= MaxBooks
        /\ req' = [op |-> "add_book",
                   form |-> [title |-> title, isbn |-> isbn, publication_year |-> publication_year,
                             author_id |-> author_id, lookup |-> lookup]]
        /\ IF Bindable(image_url)
           THEN /\ books' = books \cup {new_book}
                /\ resp' = Reply(200, "New book successfully added to database", NoBooks)
           ELSE /\ books' = books
                /\ resp' = Reply(500, "", NoBooks)
        /\ UNCHANGED <<authors, pc, held>>

\* GET /
Home ==
    /\ req' = [op |-> "home", form |-> [none |-> 0]]
    /\ resp' = Reply(200, "home.html", InIdOrder(books))
    /\ UNCHANGED <<authors, books, pc, held>>

\* POST /
Search(search) ==
    LET found == InIdOrder({b \in books : Ilike(b.title, search)})
    IN  /\ req' = [op |-> "search", form |-> [search |-> search]]
        /\ resp' = IF Len(found) = 0 THEN Reply(200, "No books found", NoBooks)
                   ELSE Reply(200, "home.html", found)
        /\ UNCHANGED <<authors, books, pc, held>>

\* GET /sort_by_title
SortByTitle ==
    /\ req' = [op |-> "sort_by_title", form |-> [none |-> 0]]
    /\ \E f \in Perms(books) :
          /\ \A i, j \in DOMAIN f : i < j => StrLeq(f[i].title, f[j].title)
          /\ resp' = Reply(200, "home.html", f)
    /\ UNCHANGED <<authors, books, pc, held>>

\* GET /sort_by_author
SortByAuthor ==
    /\ req' = [op |-> "sort_by_author", form |-> [none |-> 0]]
    /\ \E f \in Perms({b \in books : Resolves(b, authors)}) :
          /\ \A i, j \in DOMAIN f : i < j => StrLeq(NameOf(f[i], authors), NameOf(f[j], authors))
          /\ resp' = Reply(200, "home.html", f)
    /\ UNCHANGED <<authors, books, pc, held>>

SweepNothing(auths, bks) == auths

SweepEveryAuthor(auths, bks) == {}

\* Author.query.filter(~Author.author_id.in_(SELECT DISTINCT author_id FROM book)).delete():
\* the authors that are left
SweepOrphans(auths, bks) == {a \in auths : IntVal(a.author_id) \in {b.author_id : b \in bks}}

DeleteAlwaysSweeps(book_id) ==
    /\ req' = [op |-> "delete", form |-> [book_id |-> book_id]]
    /\ books' = {b \in books : b.book_id # book_id}
    /\ authors' = SweepOrphans(authors, books')
    /\ resp' = IF \E b \in books : b.book_id = book_id THEN Reply(302, "home", NoBooks)
               ELSE Reply(404, "No book found", NoBooks)
    /\ UNCHANGED <<pc, held>>

\* POST /book/<book_id>/delete
Delete(book_id) ==
    /\ req' = [op |-> "delete", form |-> [book_id |-> book_id]]
    /\ IF \E b \in books : b.book_id = book_id
       THEN /\ books' = {b \in books : b.book_id # book_id}
            /\ authors' = SweepOrphans(authors, books')
            /\ resp' = Reply(302, "home", NoBooks)
       ELSE /\ resp' = Reply(404, "No book found", NoBooks)
            /\ UNCHANGED <<authors, books>>
    /\ UNCHANGED <<pc, held>>

(* ------------- delete as its three database round trips ---------------- *)

\* book = Book.query.get(book_id)
DeleteGet(w, book_id) ==
    /\ pc[w] = "idle"
    /\ req' = [op |-> "delete_get", form |-> [book_id |-> book_id]]
    /\ IF \E b \in books : b.book_id = book_id
       THEN /\ held' = [held EXCEPT ![w] = CHOOSE b \in books : b.book_id = book_id]
            /\ pc' = [pc EXCEPT ![w] = "found"]
            /\ UNCHANGED resp
       ELSE /\ resp' = Reply(404, "No book found", NoBooks)
            /\ UNCHANGED <<pc, held>>
    /\ UNCHANGED <<authors, books>>

\* db.session.delete(book); db.session.commit()
DeleteCommit(w) ==
    /\ pc[w] = "found"
    /\ req' = [op |-> "delete_commit", form |-> [book_id |-> held[w].book_id]]
    /\ books' = {b \in books : b.book_id # held[w].book_id}
    /\ pc' = [pc EXCEPT ![w] = "committed"]
    /\ UNCHANGED <<authors, resp, held>>

DeleteSweepHeld(w) ==
    /\ pc[w] = "committed"
    /\ req' = [op |-> "delete_sweep", form |-> [book_id |-> held[w].book_id]]
    /\ authors' = SweepOrphans(authors, books) \ AuthorsOf(held[w], authors)
    /\ resp' = Reply(302, "home", NoBooks)
    /\ pc' = [pc EXCEPT ![w] = "idle"]
    /\ held' = [held EXCEPT ![w] = NoBook]
    /\ UNCHANGED books

\* the orphan query, its bulk delete and the second commit
DeleteSweep(w) ==
    /\ pc[w] = "committed"
    /\ req' = [op |-> "delete_sweep", form |-> [book_id |-> held[w].book_id]]
    /\ authors' = SweepOrphans(authors, books)
    /\ resp' = Reply(302, "home", NoBooks)
    /\ pc' = [pc EXCEPT ![w] = "idle"]
    /\ held' = [held EXCEPT ![w] = NoBook]
    /\ UNCHANGED books

(* --------------------------- specifications ----------------------------- *)

\* one request at a time, each handler running to completion
Next ==
    \/ \E n \in Names, bd \in Birthdates, dd \in Deaths : AddAuthor(n, bd, dd)
    \/ \E t \in Titles, i \in Isbns, y \in Years, a \in AuthorRefs, l \in CatalogueLookups :
          AddBook(t, i, y, a, l)
    \/ Home
    \/ \E s \in Searches : Search(s)
    \/ SortByTitle
    \/ SortByAuthor
    \/ \E id \in 0..MaxBooks : Delete(id)

Spec == Init /\ [][Next]_vars

\* add_book under every outcome of the cover lookup
NextLookup ==
    \/ \E t \in Titles, i \in Isbns, y \in Years, l \in Lookups : AddBook(t, i, y, <<>>, l)
    \/ \E id \in 0..MaxBooks : Delete(id)

SpecLookup == Init /\ [][NextLookup]_vars

\* requests served concurrently: the commits of delete interleave with
\* the commits of add_author and add_book
NextConc ==
    \/ \E bd \in Birthdates, dd \in Deaths : AddAuthor(<<"a">>, bd, dd)
    \/ \E i \in Isbns, y \in Years, a \in AuthorRefs : AddBook(<<"b">>, i, y, a, "net_error")
    \/ \E w \in Workers, id \in 0..MaxBooks : DeleteGet(w, id)
    \/ \E w \in Workers : DeleteCommit(w)
    \/ \E w \in Workers : DeleteSweep(w)

SpecConc == Init /\ [][NextConc]_vars

(* ------------------------------ properties ------------------------------ *)

TypeOK ==
    /\ \A a \in authors : a.author_id \in 1..MaxAuthors
    /\ \A b \in books : b.book_id \in 1..MaxBooks

Orphans(auths, bks) == {a \in auths : BooksOf(a, bks) = {}}

Range(f) == {f[i] : i \in DOMAIN f}

DeleteSucceeds == req'.op = "delete" /\ resp'.status = 302

\* C1: after a successful delete of a book b whose author is A, A is gone if
\* b was the only book referencing A and A is still there, with the same
\* fields, if another book references A.
C1_DeleteDecidesAuthor ==
    [][\A b \in books : \A a \in AuthorsOf(b, authors) :
          (DeleteSucceeds /\ req'.form.book_id = b.book_id) =>
              IF BooksOf(a, books) = {b}
              THEN a.author_id \notin AuthorIds(authors')
              ELSE a \in authors']_vars

C1_Witness ==
    /\ req.op = "delete" /\ resp.status = 302
    /\ \E a \in authors : Cardinality(BooksOf(a, books)) = 1
    /\ Cardinality(authors) = 1

\* C2: every book whose author reference is set refers to an author that
\* exists in the Author table.
C2_AuthorRefsResolve == \A b \in books : b.author_id # NullVal => Resolves(b, authors)

\* C3: delete of a book_id that is not present answers 404 and changes
\* neither table: no book is removed and no author is swept.
C3_DeleteMissingChangesNothing ==
    [][(req'.op = "delete" /\ ~ \E b \in books : b.book_id = req'.form.book_id) =>
          /\ resp'.status = 404
          /\ books' = books
          /\ authors' = authors]_vars

C3_Witness ==
    /\ req.op = "delete" /\ resp.status = 404
    /\ Orphans(authors, books) # {}
    /\ books # {}

\* C4: a successful delete leaves exactly the authors that some remaining
\* book references: every orphan is removed, whoever it is, and no
\* referenced author is removed.
C4_SweepRemovesExactlyOrphans ==
    [][DeleteSucceeds =>
          /\ authors' = authors \ Orphans(authors, books')
          /\ Orphans(authors', books') = {}]_vars

C4_Witness ==
    /\ req.op = "delete" /\ resp.status = 302
    /\ authors # {}
    /\ 1 \notin AuthorIds(authors)

\* C5: sort_by_author returns every book of the catalogue exactly once, in
\* non-decreasing order of author name, omitting no book.
C5_SortByAuthorReturnsAll ==
    req.op = "sort_by_author" =>
        /\ Range(resp.books) = books
        /\ Len(resp.books) = Cardinality(books)
        /\ \A i, j \in DOMAIN resp.books :
              (i < j /\ Resolves(resp.books[i], authors) /\ Resolves(resp.books[j], authors)) =>
                  StrLeq(NameOf(resp.books[i], authors), NameOf(resp.books[j], authors))

\* the title has the term as a substring, letter case ignored
Contains(title, term) ==
    \E i \in 0..(Len(title) - Len(term)) :
        \A j \in 1..Len(term) : Lower(title[i + j]) = Lower(term[j])

\* C6: a search returns exactly the books whose title contains the term as
\* a case-insensitive substring, and "No books found" exactly when there is
\* no such book.
C6_SearchIsSubstringMatch ==
    req.op = "search" =>
        LET hits == {b \in books : Contains(b.title, req.form.search)}
        IN  /\ Range(resp.books) = hits
            /\ (resp.body = "No books found") <=> (hits = {})

\* C7: add_book creates exactly one book whatever the cover lookup does; the
\* book's image_url is the thumbnail URL when the lookup returned one and
\* the empty text when it failed.
C7_LookupNeverFailsCreation ==
    [][req'.op = "add_book" =>
          \E b \in books' :
              /\ b.book_id \notin BookIds(books)
              /\ books' = books \cup {b}
              /\ b.image_url = IF req'.form.lookup = "thumb_url" THEN TextVal(Url)
                               ELSE TextVal(<<>>)]_vars

\* C8: author ids are pairwise distinct and book ids are pairwise distinct;
\* a new record gets an id no existing record has and the submitted field
\* values; no step changes a record that stays in its table.
C8_IdsUniqueRecordsImmutable ==
    [][/\ \A a1, a2 \in authors' : a1.author_id = a2.author_id => a1 = a2
       /\ \A b1, b2 \in books' : b1.book_id = b2.book_id => b1 = b2
       /\ req'.op = "add_author" =>
             \E a \in authors' :
                 /\ a.author_id \notin AuthorIds(authors)
                 /\ authors' = authors \cup {a}
                 /\ a.name = req'.form.name
                 /\ a.birthdate = req'.form.birthdate
                 /\ a.date_of_death = req'.form.date_of_death
       /\ (req'.op = "add_book" /\ resp'.status = 200) =>
             \E b \in books' :
                 /\ b.book_id \notin BookIds(books)
                 /\ books' = books \cup {b}
                 /\ b.title = req'.form.title
                 /\ b.isbn = req'.form.isbn
       /\ \A a \in authors : a.author_id \in AuthorIds(authors') => a \in authors'
       /\ \A b \in books : b.book_id \in BookIds(books') => b \in books']_vars

C8_Witness ==
    /\ req.op = "add_author"
    /\ AuthorIds(authors) = 1..MaxAuthors
    /\ \E a1, a2 \in authors : a1.name # a2.name
    /\ books # {}

\* C9: the sweep commit of a delete removes exactly the authors no book
\* references when the sweep runs, so an author whose last book went in the
\* first commit survives if an add_book for that author committed in between.
C9_SweepSeesCurrentBooks ==
    [][\A w \in Workers :
          (pc[w] = "committed" /\ pc'[w] = "idle") =>
              /\ authors' = authors \ Orphans(authors, books)
              /\ books' = books]_vars

\* between the two commits: the author of the removed book is back to one
\* book, the one an add_book has just committed
C9_Witness ==
    \E w \in Workers :
        /\ pc[w] = "committed"
        /\ req.op = "add_book" /\ resp.status = 200
        /\ \E a \in AuthorsOf(held[w], authors) : \E b \in books :
              /\ BooksOf(a, books) = {b}
              /\ b.author_id = IntegerAffinity(req.form.author_id)
              /\ b.book_id = held[w].book_id

\* C10: only a successful delete removes records; add_author adds exactly
\* one author and touches nothing else; add_book adds exactly one book and
\* touches nothing else; home, search and the two sorts change nothing.
C10_FrameOfOperations ==
    [][/\ (~ authors \subseteq authors' \/ ~ books \subseteq books') => DeleteSucceeds
       /\ req'.op = "add_author" =>
             /\ books' = books
             /\ authors \subseteq authors'
             /\ Cardinality(authors') = Cardinality(authors) + 1
       /\ req'.op = "add_book" =>
             /\ authors' = authors
             /\ books \subseteq books'
             /\ Cardinality(books') = Cardinality(books) + 1
       /\ req'.op \in {"home", "search", "sort_by_title", "sort_by_author"} =>
             /\ authors' = authors
             /\ books' = books]_vars

====
